---- MODULE Spec2Model ----
(***************************************************************************)
(* PySerialInterface: a worker thread (SerialInterface.run) that owns a    *)
(* serial link, a request queue and a response queue shared with any       *)
(* number of caller threads (queue_request_wait_response), and the pure    *)
(* line parser (parse_message).                                            *)
(*                                                                         *)
(* Time is counted in ticks of one second.  Time passes only where the     *)
(* code blocks: in Serial.read_until (at most the read timeout), in        *)
(* time.sleep(1) and, once the worker thread has ended, in the callers'    *)
(* blocking Queue.get.  A thread that is not blocked is not held up for a  *)
(* whole second: no second passes while a caller is between the test of   *)
(* self.__connected and the put that follows it.                           *)
(***************************************************************************)
EXTENDS Integers, Sequences, FiniteSets, TLC

(***************************************************************************)
(* Bounds of the model.                                                    *)
(***************************************************************************)
\* the largest retry_cnt a caller passes
MaxRetry == 2
\* the largest per-attempt timeout (seconds) a caller passes
MaxTimeout == 2
\* the number of Serial objects the platform lets the worker open
MaxLinks == 2
\* the longest line handed to the parser on its own
MaxLineLen == 4

(***************************************************************************)
(* Program constants.                                                      *)
(***************************************************************************)
LF == 10
CR == 13
PrintableLo == 32
PrintableHi == 126
\* queue_request_wait_response: timeout * retry_cnt + 5.0
CallerSlack == 5
\* run: for loop in range(3)
PauseLoops == 3
\* run: time.sleep(1)
SleepSecs == 1
\* the Serial read timeout the interface is constructed with, in ticks
ReadTimeout == 1


Max(a, b) == IF a > b THEN a ELSE b

\* Python's None where a string or a list is expected
NoneVal == <<-1>>

\* A Python list of strings <<s1, ..., sn>> where a string or a list is
\* expected: the strings behind a mark no character code equals
ListOf(strs) == <<-2>> \o strs

\* type(required_resp_start) == list
IsList(p) == Len(p) > 0 /\ p[1] = -2

(***************************************************************************)
(* Events (the dataclasses).  Every event is a record with the same        *)
(* fields; the fields a dataclass does not have stay at their defaults.    *)
(* for, of, writes and attempt are bookkeeping the code does not           *)
(* have: the caller and the request an event was produced for, the number  *)
(* of writes made for it and the attempt that resolved it.                 *)
(***************************************************************************)
NoRequest == [id |-> 0, req |-> NoneVal, required_resp_start |-> NoneVal,
              resp_type |-> "", timeout |-> 0, retry_cnt |-> 0]

Event(type, content, error, request) ==
    [type |-> type, content |-> content, error |-> error, request |-> request,
     for |-> 0, of |-> NoRequest, writes |-> 0, attempt |-> 0]

CLIResponseMessage(content) == Event("CLIResponseMessage", content, "", <<>>)

InvalidMessage(content, error) == Event("InvalidMessage", content, error, <<>>)

EmptyMessage(error) == Event("EmptyMessage", <<>>, error, <<>>)

ResponseTimeout(request) == Event("ResponseTimeout", <<>>, "", request)

RequestHandlerTimeout(request) == Event("RequestHandlerTimeout", <<>>, "", request)

SerialNotConnected == Event("SerialNotConnected", <<>>, "", <<>>)

\* Python's None where an event is expected
NoEvent == Event("None", <<>>, "", <<>>)

(***************************************************************************)
(* The line parser.  Bytes and text are sequences of character codes.      *)
(***************************************************************************)
Last(s) == s[Len(s)]

Front(s) == SubSeq(s, 1, Len(s) - 1)

\* cut_line_end_characters as it would be if it cut one carriage return only
cut_line_end_characters_OneCR(line) ==
    LET noLF == IF Last(line) = LF THEN Front(line) ELSE line
    IN  IF Last(line) = LF /\ Len(Front(line)) = 0
        THEN [invalid |-> TRUE, msg |-> InvalidMessage(line, "Msg only 0x0a"), line |-> line]
        ELSE IF Last(noLF) = CR
        THEN IF Len(Front(noLF)) = 0
             THEN [invalid |-> TRUE, msg |-> InvalidMessage(noLF, "Msg only 0x0d"), line |-> noLF]
             ELSE LET noCR == Front(noLF)
                  IN  IF FALSE
                      THEN IF Len(Front(noCR)) = 0
                           THEN [invalid |-> TRUE,
                                 msg |-> InvalidMessage(noCR, "Msg only 0x0d"), line |-> noCR]
                           ELSE [invalid |-> FALSE, msg |-> EmptyMessage(""),
                                 line |-> Front(noCR)]
                      ELSE [invalid |-> FALSE, msg |-> EmptyMessage(""), line |-> noCR]
        ELSE [invalid |-> FALSE, msg |-> EmptyMessage(""), line |-> noLF]

\* cut_line_end_characters as it would be if a line of delimiters only were
\* reported whole
cut_line_end_characters_WholeInput(line) ==
    LET noLF == IF Last(line) = LF THEN Front(line) ELSE line
    IN  IF Last(line) = LF /\ Len(Front(line)) = 0
        THEN [invalid |-> TRUE, msg |-> InvalidMessage(line, "Msg only 0x0a"), line |-> line]
        ELSE IF Last(noLF) = CR
        THEN IF Len(Front(noLF)) = 0
             THEN [invalid |-> TRUE, msg |-> InvalidMessage(line, "Msg only 0x0d"), line |-> noLF]
             ELSE LET noCR == Front(noLF)
                  IN  IF Last(noCR) = CR
                      THEN IF Len(Front(noCR)) = 0
                           THEN [invalid |-> TRUE,
                                 msg |-> InvalidMessage(line, "Msg only 0x0d"), line |-> noCR]
                           ELSE [invalid |-> FALSE, msg |-> EmptyMessage(""),
                                 line |-> Front(noCR)]
                      ELSE [invalid |-> FALSE, msg |-> EmptyMessage(""), line |-> noCR]
        ELSE [invalid |-> FALSE, msg |-> EmptyMessage(""), line |-> noLF]

\* cut_line_end_characters: [invalid |-> TRUE, msg |-> the InvalidMessage] or
\* [invalid |-> FALSE, line |-> the stripped bytes]
cut_line_end_characters(line) ==
    LET noLF == IF Last(line) = LF THEN Front(line) ELSE line
    IN  IF Last(line) = LF /\ Len(Front(line)) = 0
        THEN [invalid |-> TRUE, msg |-> InvalidMessage(line, "Msg only 0x0a"), line |-> line]
        ELSE IF Last(noLF) = CR
        THEN IF Len(Front(noLF)) = 0
             THEN [invalid |-> TRUE, msg |-> InvalidMessage(noLF, "Msg only 0x0d"), line |-> noLF]
             ELSE LET noCR == Front(noLF)
                  IN  IF Last(noCR) = CR
                      THEN IF Len(Front(noCR)) = 0
                           THEN [invalid |-> TRUE,
                                 msg |-> InvalidMessage(noCR, "Msg only 0x0d"), line |-> noCR]
                           ELSE [invalid |-> FALSE, msg |-> EmptyMessage(""),
                                 line |-> Front(noCR)]
                      ELSE [invalid |-> FALSE, msg |-> EmptyMessage(""), line |-> noCR]
        ELSE [invalid |-> FALSE, msg |-> EmptyMessage(""), line |-> noLF]

\* check_valid_ascii as it would be if it tested the first byte only
check_valid_ascii_FirstOnly(line) ==
    \A i \in 1..(IF Len(line) > 0 THEN 1 ELSE 0) : ~(line[i] < PrintableLo \/ line[i] > PrintableHi)

check_valid_ascii(line) ==
    \A i \in 1..Len(line) : ~(line[i] < PrintableLo \/ line[i] > PrintableHi)

\* str.rstrip() / str.lstrip() on text that is printable ASCII: the only
\* whitespace character in [0x20, 0x7E] is the space
\* rstrip as it would be if it removed nothing
rstrip_KeepsAll(s) == s

RECURSIVE rstrip(_)
rstrip(s) == IF Len(s) > 0 /\ Last(s) = 32 THEN rstrip(Front(s)) ELSE s

RECURSIVE lstrip(_)
lstrip(s) == IF Len(s) > 0 /\ Head(s) = 32 THEN lstrip(Tail(s)) ELSE s

\* parse_message as it would be if the content were the text without its
\* first character
parse_message_DropsFirst(line) ==
    IF line = NoneVal \/ Len(line) = 0
    THEN EmptyMessage("Empty line")
    ELSE LET cut == cut_line_end_characters(line)
         IN  IF cut.invalid
             THEN cut.msg
             ELSE IF ~check_valid_ascii(cut.line)
             THEN InvalidMessage(cut.line, "Illegal character(s)")
             ELSE LET text == rstrip(cut.line)
                  IN  IF Len(text) = 0
                      THEN EmptyMessage("Empty line")
                      ELSE IF Len(text) > 1
                      THEN CLIResponseMessage(Tail(text))
                      ELSE CLIResponseMessage(<<>>)

\* parse_message as it would be if a line with an illegal character were
\* reported with its delimiters
parse_message_KeepsRaw(line) ==
    IF line = NoneVal \/ Len(line) = 0
    THEN EmptyMessage("Empty line")
    ELSE LET cut == cut_line_end_characters(line)
         IN  IF cut.invalid
             THEN cut.msg
             ELSE IF ~check_valid_ascii(cut.line)
             THEN InvalidMessage(line, "Illegal character(s)")
             ELSE LET text == rstrip(cut.line)
                  IN  IF Len(text) = 0
                      THEN EmptyMessage("Empty line")
                      ELSE IF Len(text) > 1
                      THEN CLIResponseMessage(lstrip(text))
                      ELSE CLIResponseMessage(<<>>)

\* parse_message as it would be if the content kept its leading whitespace
parse_message_KeepsLeading(line) ==
    IF line = NoneVal \/ Len(line) = 0
    THEN EmptyMessage("Empty line")
    ELSE LET cut == cut_line_end_characters(line)
         IN  IF cut.invalid
             THEN cut.msg
             ELSE IF ~check_valid_ascii(cut.line)
             THEN InvalidMessage(cut.line, "Illegal character(s)")
             ELSE LET text == rstrip(cut.line)
                  IN  IF Len(text) = 0
                      THEN EmptyMessage("Empty line")
                      ELSE IF Len(text) > 1
                      THEN CLIResponseMessage(text)
                      ELSE CLIResponseMessage(<<>>)

\* parse_message as it would be if a blank line gave None
parse_message_NoneForBlank(line) ==
    IF line = NoneVal \/ Len(line) = 0
    THEN EmptyMessage("Empty line")
    ELSE LET cut == cut_line_end_characters(line)
         IN  IF cut.invalid
             THEN cut.msg
             ELSE IF ~check_valid_ascii(cut.line)
             THEN InvalidMessage(cut.line, "Illegal character(s)")
             ELSE LET text == rstrip(cut.line)
                  IN  IF Len(text) = 0
                      THEN NoEvent
                      ELSE IF Len(text) > 1
                      THEN CLIResponseMessage(lstrip(text))
                      ELSE CLIResponseMessage(<<>>)

\* parse_message; line is NoneVal (None) or a byte sequence
parse_message(line) ==
    IF line = NoneVal \/ Len(line) = 0
    THEN EmptyMessage("Empty line")
    ELSE LET cut == cut_line_end_characters(line)
         IN  IF cut.invalid
             THEN cut.msg
             ELSE IF ~check_valid_ascii(cut.line)
             THEN InvalidMessage(cut.line, "Illegal character(s)")
             ELSE LET text == rstrip(cut.line)
                  IN  IF Len(text) = 0
                      THEN EmptyMessage("Empty line")
                      ELSE IF Len(text) > 1
                      THEN CLIResponseMessage(lstrip(text))
                      ELSE CLIResponseMessage(<<>>)

(***************************************************************************)
(* The parser of SerialRequest.py, statement by statement: the line is     *)
(* cut in steps, each step on the result of the one before.                *)
(***************************************************************************)
\* SerialRequest.cut_line_end_characters, the first if: the line feed
SerialRequest_cut_LF(line) ==
    IF Last(line) = LF
    THEN IF Len(Front(line)) = 0
         THEN [invalid |-> TRUE, msg |-> InvalidMessage(line, "Msg only 0x0a"), line |-> line]
         ELSE [invalid |-> FALSE, msg |-> EmptyMessage(""), line |-> Front(line)]
    ELSE [invalid |-> FALSE, msg |-> EmptyMessage(""), line |-> line]

\* SerialRequest.cut_line_end_characters, one if on a carriage return
SerialRequest_cut_CR(line) ==
    IF Last(line) = CR
    THEN IF Len(Front(line)) = 0
         THEN [invalid |-> TRUE, msg |-> InvalidMessage(line, "Msg only 0x0d"),
               line |-> line, cut |-> FALSE]
         ELSE [invalid |-> FALSE, msg |-> EmptyMessage(""), line |-> Front(line), cut |-> TRUE]
    ELSE [invalid |-> FALSE, msg |-> EmptyMessage(""), line |-> line, cut |-> FALSE]

\* SerialRequest.cut_line_end_characters: the second carriage return is
\* looked for only if the first was cut
SerialRequest_cut_line_end_characters(line) ==
    LET a == SerialRequest_cut_LF(line)
    IN  IF a.invalid THEN [invalid |-> TRUE, msg |-> a.msg, line |-> a.line]
        ELSE LET b == SerialRequest_cut_CR(a.line)
             IN  IF b.invalid \/ ~b.cut
                 THEN [invalid |-> b.invalid, msg |-> b.msg, line |-> b.line]
                 ELSE LET c == SerialRequest_cut_CR(b.line)
                      IN  [invalid |-> c.invalid, msg |-> c.msg, line |-> c.line]

\* SerialRequest.check_valid_ascii: False at the first byte out of range
SerialRequest_check_valid_ascii(line) ==
    ~\E i \in 1..Len(line) : line[i] < PrintableLo \/ line[i] > PrintableHi

\* SerialRequest.parse_message as it would be if it cut the delimiters
\* after the character test
SerialRequest_parse_message_TestsRaw(line) ==
    IF line = NoneVal \/ Len(line) = 0
    THEN EmptyMessage("Empty line")
    ELSE LET cut == SerialRequest_cut_line_end_characters(line)
         IN  IF cut.invalid
             THEN cut.msg
             ELSE IF ~SerialRequest_check_valid_ascii(line)
             THEN InvalidMessage(cut.line, "Illegal character(s)")
             ELSE LET text == rstrip(cut.line)
                  IN  IF text = <<>>
                      THEN EmptyMessage("Empty line")
                      ELSE CLIResponseMessage(IF Len(text) > 1 THEN lstrip(text) ELSE <<>>)

\* SerialRequest.parse_message; line is NoneVal (None) or a byte sequence
SerialRequest_parse_message(line) ==
    IF line = NoneVal \/ Len(line) = 0
    THEN EmptyMessage("Empty line")
    ELSE LET cut == SerialRequest_cut_line_end_characters(line)
         IN  IF cut.invalid
             THEN cut.msg
             ELSE IF ~SerialRequest_check_valid_ascii(cut.line)
             THEN InvalidMessage(cut.line, "Illegal character(s)")
             ELSE LET text == rstrip(cut.line)
                  IN  IF text = <<>>
                      THEN EmptyMessage("Empty line")
                      ELSE CLIResponseMessage(IF Len(text) > 1 THEN lstrip(text) ELSE <<>>)

(***************************************************************************)
(* Inputs: what the callers pass and what the link delivers.               *)
(***************************************************************************)
\* "AT" and "OK"
AT == <<65, 84>>
OK == <<79, 75>>

\* The (req, required_resp_start, resp_type, timeout, retry_cnt) tuples the
\* callers pass.  retry_cnt 0 and resp_type InvalidMessage are arguments the
\* signature of queue_request_wait_response accepts like any other.
Requests ==
    \* a payload and an expected prefix
    {[req |-> AT, required_resp_start |-> OK, resp_type |-> "CLIResponseMessage",
      timeout |-> 1, retry_cnt |-> n] : n \in 0..1}
    \cup
    {[req |-> AT, required_resp_start |-> OK, resp_type |-> "CLIResponseMessage",
      timeout |-> MaxTimeout, retry_cnt |-> MaxRetry]}
    \cup
    \* listen-only: no payload
    {[req |-> NoneVal, required_resp_start |-> OK, resp_type |-> "CLIResponseMessage",
      timeout |-> 1, retry_cnt |-> MaxRetry]}
    \cup
    \* fire-and-forget: no expected prefix
    {[req |-> AT, required_resp_start |-> NoneVal, resp_type |-> "CLIResponseMessage",
      timeout |-> 1, retry_cnt |-> n] : n \in 0..1}
    \cup
    \* another expected type
    {[req |-> AT, required_resp_start |-> OK, resp_type |-> "InvalidMessage",
      timeout |-> 1, retry_cnt |-> 1]}

\* The lines read_until may return: "OK\r\n", "NOK\r\n", a line with a
\* control character, and a blank line
LinkLines == {<<79, 75, 13, 10>>, <<78, 79, 75, 13, 10>>, <<7, 13, 10>>, <<32, 13, 10>>}

\* The port lists the interface is constructed with
PortLists == {<<>>, <<"COM1", "COM2">>}

Callers == {1, 2}

VARIABLES
    serial_list,                  \* self.__serial_list
    serial,                       \* self.__serial: 0 is None, else the Serial object
    open_links,                   \* the Serial objects opened and not yet given a close()
    close_failed,                 \* the close() of the last exit raised (line 293)
    links_made,                   \* the Serial objects constructed so far
    is_stopped,                   \* self.__is_stopped
    is_force_reconnect_requested, \* self.__is_force_reconnect_requested
    connected,                    \* self.__connected
    request_queue,                \* self.__request_queue
    response_queue,               \* self.__response_queue
    wpc,                          \* where the worker thread is
    port_idx,                     \* __connect: the port the sweep is at
    cur,                          \* the request __handle_serial_request is handling
    trial,                        \* __handle_serial_request: the attempt, from 1
    att,                          \* __wait_for_response: seconds since it was entered
    wcount,                       \* writes made for cur
    err,                          \* __main_loop: err
    raised,                       \* an exception __main_loop does not catch is propagating
    pause_loop,                   \* run: the iteration of the idle loop, from 1
    cpc,                          \* where each caller is
    creq,                         \* each caller's request
    cwait,                        \* seconds left of each caller's blocking Queue.get
    cres,                         \* what each caller's call returned
    unsolicited,                  \* the msg __process_incoming_message has just logged
    pin,                          \* a line and a request's match arguments, for
                                  \* the parser on its own
    pout,                         \* what the parser and the match test made of pin
    other_connected,              \* self.__connected of a second SerialInterface
    other_wpc,                    \* where the second instance's worker thread is
    other_callers,                \* the callers that call through the second instance
    other_taken                   \* the callers whose request the second instance's
                                  \* worker took off the request queue

vars == <<serial_list, serial, open_links, close_failed, links_made, is_stopped,
          is_force_reconnect_requested, connected, request_queue, response_queue,
          wpc, port_idx, cur, trial, att, wcount, err, raised, pause_loop,
          cpc, creq, cwait, cres, unsolicited, pin, pout,
          other_connected, other_wpc, other_callers, other_taken>>

link_vars == <<serial, open_links, close_failed, links_made>>
flag_vars == <<is_stopped, is_force_reconnect_requested>>
handle_vars == <<cur, trial, att, wcount>>
caller_vars == <<cpc, creq, cres>>
parse_vars == <<pin, pout>>
log_vars == <<unsolicited>>
other_vars == <<other_connected, other_wpc, other_callers, other_taken>>

\* no line is being parsed on its own
NoInput == [line |-> <<>>, required_resp_start |-> NoneVal, resp_type |-> ""]

NoOutput == [done |-> FALSE, parsed |-> NoEvent, request_parsed |-> NoEvent,
             msg |-> NoEvent, outcome |-> ""]

Init ==
    /\ serial_list \in PortLists
    /\ serial = 0
    /\ open_links = {}
    /\ close_failed = FALSE
    /\ links_made = 0
    /\ is_stopped = FALSE
    /\ is_force_reconnect_requested = FALSE
    /\ connected = FALSE
    /\ request_queue = <<>>
    /\ response_queue = <<>>
    /\ wpc = "not_started"
    /\ port_idx = 1
    /\ cur = NoRequest
    /\ trial = 0
    /\ att = 0
    /\ wcount = 0
    /\ err = "None"
    /\ raised = FALSE
    /\ pause_loop = 1
    /\ cpc = [c \in Callers |-> "idle"]
    /\ creq = [c \in Callers |-> NoRequest]
    /\ cwait = [c \in Callers |-> 0]
    /\ cres = [c \in Callers |-> NoEvent]
    /\ pin = NoInput
    /\ unsolicited = NoEvent
    /\ other_connected = FALSE
    /\ other_wpc = "not_started"
    /\ other_callers = {}
    /\ other_taken = {}
    /\ pout = NoOutput

\* queue_request_wait_response: the bound of the blocking Queue.get
WaitBound(r) == r.timeout * r.retry_cnt + CallerSlack

\* d seconds pass: every caller blocked in Queue.get has d seconds less
\* left; no caller is held up between its test of connected and its put
Elapse(d) ==
    /\ d > 0 => \A c \in Callers : cpc[c] # "put"
    /\ cwait' = [c \in Callers |->
                   IF cpc[c] = "waiting" THEN Max(cwait[c] - d, 0) ELSE cwait[c]]

(***************************************************************************)
(* The match test of __wait_for_response.  msg is NoEvent when the read    *)
(* timed out.  isinstance follows the dataclass hierarchy: every event is  *)
(* an Event.                                                               *)
(***************************************************************************)
IsInstance(msg, resp_type) ==
    /\ msg # NoEvent
    /\ (resp_type = "Event" \/ msg.type = resp_type)

\* str.startswith as it would be if it looked for the prefix anywhere
StartsWith_Anywhere(content, prefix) ==
    \E k \in 0..(Len(content) - Len(prefix)) :
       SubSeq(content, k + 1, k + Len(prefix)) = prefix

\* str.startswith
StartsWith(content, prefix) ==
    /\ Len(prefix) <= Len(content)
    /\ SubSeq(content, 1, Len(prefix)) = prefix

\* for i in required_resp_start: msg.content.startswith(i), or
\* msg.content.startswith(required_resp_start)
StartsWithAny(content, required_resp_start) ==
    IF IsList(required_resp_start)
    THEN \E i \in 2..Len(required_resp_start) :
            StartsWith(content, required_resp_start[i])
    ELSE StartsWith(content, required_resp_start)

\* msg.content.startswith(...) raises instead of answering: an EmptyMessage
\* has no content (AttributeError), the content of an InvalidMessage is
\* bytes and a prefix of None is no str (TypeError); over an empty list
\* startswith is not called
MatchRaises(msg, required_resp_start, resp_type) ==
    /\ IsInstance(msg, resp_type)
    /\ required_resp_start # ListOf(<<>>)
    /\ \/ msg.type # "CLIResponseMessage"
       \/ required_resp_start = NoneVal

\* Matches as it would be if the required response start were not tested
Matches_TypeOnly(msg, required_resp_start, resp_type) ==
    /\ IsInstance(msg, resp_type)
    /\ ~MatchRaises(msg, required_resp_start, resp_type)

Matches(msg, required_resp_start, resp_type) ==
    /\ IsInstance(msg, resp_type)
    /\ ~MatchRaises(msg, required_resp_start, resp_type)
    /\ StartsWithAny(msg.content, required_resp_start)

\* __read_message: the event of a line, None for no line
read_message(line) ==
    IF line # NoneVal /\ Len(line) > 0 THEN parse_message(line) ELSE NoEvent

(***************************************************************************)
(* The worker thread.                                                      *)
(***************************************************************************)
\* the handling of cur is over: back to the dispatch loop
EndHandling ==
    /\ cur' = NoRequest
    /\ trial' = 0
    /\ att' = 0
    /\ wcount' = 0

\* __process_request_queue: if resp: self.__response_queue.put(resp)
PutResponse(resp) ==
    response_queue' = Append(response_queue,
        [resp EXCEPT !.for = cur.id, !.of = cur, !.writes = wcount, !.attempt = trial])

\* Thread.start()
Start ==
    /\ wpc = "not_started"
    /\ wpc' = "run"
    /\ UNCHANGED <<serial_list, link_vars, flag_vars, connected, request_queue,
                   response_queue, port_idx, handle_vars, err, raised, pause_loop,
                   caller_vars, cwait>>
    /\ UNCHANGED <<parse_vars, log_vars, other_vars>>

\* RunCheck as it would be if __connect left the force-reconnect flag as it
\* found it
RunCheck_KeepsFlag ==
    /\ wpc = "run"
    /\ IF is_stopped
       THEN /\ wpc' = "done"
            /\ UNCHANGED <<connected, is_force_reconnect_requested, serial, port_idx>>
       ELSE /\ connected' = FALSE
            /\ UNCHANGED is_force_reconnect_requested
            /\ serial' = 0
            /\ port_idx' = 1
            /\ wpc' = "sweep"
    /\ UNCHANGED <<serial_list, open_links, close_failed, links_made, is_stopped, request_queue,
                   response_queue, handle_vars, err, raised, pause_loop,
                   caller_vars, cwait>>
    /\ UNCHANGED <<parse_vars, log_vars, other_vars>>

\* run: while self.__is_stopped is False; then __connect, up to the loop
\* over the ports
RunCheck ==
    /\ wpc = "run"
    /\ IF is_stopped
       THEN /\ wpc' = "done"
            /\ UNCHANGED <<connected, is_force_reconnect_requested, serial, port_idx>>
       ELSE /\ connected' = FALSE
            /\ is_force_reconnect_requested' = FALSE
            /\ serial' = 0
            /\ port_idx' = 1
            /\ wpc' = "sweep"
    /\ UNCHANGED <<serial_list, open_links, close_failed, links_made, is_stopped, request_queue,
                   response_queue, handle_vars, err, raised, pause_loop,
                   caller_vars, cwait>>
    /\ UNCHANGED <<parse_vars, log_vars, other_vars>>

\* __connect: Serial(port=port, ...) opens; run sets connected and enters
\* __main_loop (err = None)
PortOpens ==
    /\ wpc = "sweep"
    /\ port_idx <= Len(serial_list)
    /\ links_made < MaxLinks
    /\ serial' = links_made + 1
    /\ links_made' = links_made + 1
    /\ open_links' = open_links \cup {links_made + 1}
    /\ connected' = TRUE
    /\ port_idx' = 1
    /\ wpc' = "loop"
    /\ UNCHANGED <<serial_list, close_failed, flag_vars, request_queue, response_queue,
                   handle_vars, err, raised, pause_loop, caller_vars, cwait>>
    /\ UNCHANGED <<parse_vars, log_vars, other_vars>>

\* PortFails as it would be if a failed port made the sweep skip a port
PortFails_SkipsNext ==
    /\ wpc = "sweep"
    /\ port_idx <= Len(serial_list)
    /\ port_idx' = port_idx + 2
    /\ UNCHANGED <<serial_list, link_vars, flag_vars, connected, request_queue,
                   response_queue, wpc, handle_vars, err, raised, pause_loop,
                   caller_vars, cwait>>
    /\ UNCHANGED <<parse_vars, log_vars, other_vars>>

\* __connect: Serial(port=port, ...) raises SerialException: the next port
PortFails ==
    /\ wpc = "sweep"
    /\ port_idx <= Len(serial_list)
    /\ port_idx' = port_idx + 1
    /\ UNCHANGED <<serial_list, link_vars, flag_vars, connected, request_queue,
                   response_queue, wpc, handle_vars, err, raised, pause_loop,
                   caller_vars, cwait>>
    /\ UNCHANGED <<parse_vars, log_vars, other_vars>>

\* SweepFailed as it would be if a sweep without a port left connected set
SweepFailed_StaysConnected ==
    /\ wpc = "sweep"
    /\ port_idx > Len(serial_list)
    /\ connected' = TRUE
    /\ port_idx' = 1
    /\ pause_loop' = 1
    /\ wpc' = "sleep"
    /\ UNCHANGED <<serial_list, link_vars, flag_vars, request_queue, response_queue,
                   handle_vars, err, raised, caller_vars, cwait>>
    /\ UNCHANGED <<parse_vars, log_vars, other_vars>>

\* __connect returns False; run sets connected False and goes to the idle loop
SweepFailed ==
    /\ wpc = "sweep"
    /\ port_idx > Len(serial_list)
    /\ connected' = FALSE
    /\ port_idx' = 1
    /\ pause_loop' = 1
    /\ wpc' = "sleep"
    /\ UNCHANGED <<serial_list, link_vars, flag_vars, request_queue, response_queue,
                   handle_vars, err, raised, caller_vars, cwait>>
    /\ UNCHANGED <<parse_vars, log_vars, other_vars>>

\* LoopCheck as it would be if __main_loop tested the stop flag only
LoopCheck_IgnoresForce ==
    /\ wpc = "loop"
    /\ wpc' = IF is_stopped THEN "finally" ELSE "body"
    /\ UNCHANGED <<serial_list, link_vars, flag_vars, connected, request_queue,
                   response_queue, port_idx, handle_vars, err, raised, pause_loop,
                   caller_vars, cwait>>
    /\ unsolicited' = NoEvent
    /\ UNCHANGED <<parse_vars, other_vars>>

\* LoopCheck as it would be if __main_loop tested the reconnect flag only
LoopCheck_IgnoresStop ==
    /\ wpc = "loop"
    /\ wpc' = IF is_force_reconnect_requested THEN "finally" ELSE "body"
    /\ UNCHANGED <<serial_list, link_vars, flag_vars, connected, request_queue,
                   response_queue, port_idx, handle_vars, err, raised, pause_loop,
                   caller_vars, cwait>>
    /\ unsolicited' = NoEvent
    /\ UNCHANGED <<parse_vars, other_vars>>

\* __main_loop: while is_stopped is False and is_force_reconnect_requested is False
LoopCheck ==
    /\ wpc = "loop"
    /\ wpc' = IF is_stopped \/ is_force_reconnect_requested THEN "finally" ELSE "body"
    /\ UNCHANGED <<serial_list, link_vars, flag_vars, connected, request_queue,
                   response_queue, port_idx, handle_vars, err, raised, pause_loop,
                   caller_vars, cwait>>
    /\ unsolicited' = NoEvent
    /\ UNCHANGED <<parse_vars, other_vars>>

\* Dequeue as it would be if the request queue gave its newest request first
Dequeue_TakesLast ==
    /\ wpc = "body"
    /\ request_queue # <<>>
    /\ LET item == Last(request_queue)
       IN  /\ request_queue' = Front(request_queue)
           /\ IF item.req # NoneVal /\ item.retry_cnt < 1
              THEN \* range(retry_cnt) is empty: ResponseTimeout(request=req)
                   /\ response_queue' = Append(response_queue,
                          [ResponseTimeout(item.req) EXCEPT !.for = item.id, !.of = item])
                   /\ wpc' = "loop"
                   /\ UNCHANGED handle_vars
              ELSE /\ cur' = item
                   /\ trial' = 1
                   /\ att' = 0
                   /\ wcount' = 0
                   /\ wpc' = IF item.req = NoneVal THEN "wait" ELSE "send"
                   /\ UNCHANGED response_queue
    /\ UNCHANGED <<serial_list, link_vars, flag_vars, connected, port_idx, err, raised,
                   pause_loop, caller_vars, cwait>>
    /\ UNCHANGED <<parse_vars, log_vars, other_vars>>

\* __process_request_queue: get the request; __handle_serial_request up to
\* the first write (listen-only: up to the first read)
Dequeue ==
    /\ wpc = "body"
    /\ request_queue # <<>>
    /\ LET item == Head(request_queue)
       IN  /\ request_queue' = Tail(request_queue)
           /\ IF item.req # NoneVal /\ item.retry_cnt < 1
              THEN \* range(retry_cnt) is empty: ResponseTimeout(request=req)
                   /\ response_queue' = Append(response_queue,
                          [ResponseTimeout(item.req) EXCEPT !.for = item.id, !.of = item])
                   /\ wpc' = "loop"
                   /\ UNCHANGED handle_vars
              ELSE /\ cur' = item
                   /\ trial' = 1
                   /\ att' = 0
                   /\ wcount' = 0
                   /\ wpc' = IF item.req = NoneVal THEN "wait" ELSE "send"
                   /\ UNCHANGED response_queue
    /\ UNCHANGED <<serial_list, link_vars, flag_vars, connected, port_idx, err, raised,
                   pause_loop, caller_vars, cwait>>
    /\ UNCHANGED <<parse_vars, log_vars, other_vars>>

\* ProcessIncoming as it would be if the message read were put on the
\* response queue
ProcessIncoming_Publishes ==
    /\ wpc = "body"
    /\ request_queue = <<>>
    /\ \E d \in 0..ReadTimeout, line \in LinkLines \cup {<<>>} :
          /\ Elapse(d)
          /\ unsolicited' = read_message(line)
          /\ response_queue' = IF read_message(line) # NoEvent
                               THEN Append(response_queue, read_message(line))
                               ELSE response_queue
    /\ wpc' = "loop"
    /\ UNCHANGED <<serial_list, link_vars, flag_vars, connected, request_queue,
                   port_idx, handle_vars, err, raised, pause_loop, caller_vars>>
    /\ UNCHANGED <<parse_vars, other_vars>>

\* __process_incoming_message: one read; the message, if there is one, is
\* logged (unsolicited holds it until the next loop test)
ProcessIncoming ==
    /\ wpc = "body"
    /\ request_queue = <<>>
    /\ \E d \in 0..ReadTimeout, line \in LinkLines \cup {<<>>} :
          /\ Elapse(d)
          /\ unsolicited' = read_message(line)
    /\ wpc' = "loop"
    /\ UNCHANGED <<serial_list, link_vars, flag_vars, connected, request_queue,
                   response_queue, port_idx, handle_vars, err, raised, pause_loop,
                   caller_vars>>
    /\ UNCHANGED <<parse_vars, other_vars>>

\* read_until, write or flush raises SerialException: __main_loop catches it
LinkFails ==
    /\ wpc \in {"body", "send", "wait"}
    /\ wpc = "body" => request_queue = <<>>
    /\ err' = "SerialException"
    /\ wpc' = "finally"
    /\ EndHandling
    /\ UNCHANGED <<serial_list, link_vars, flag_vars, connected, request_queue,
                   response_queue, port_idx, raised, pause_loop, caller_vars, cwait>>
    /\ UNCHANGED <<parse_vars, log_vars, other_vars>>

\* __handle_serial_request: write and flush; a request without a required
\* response start returns None here and nothing is put; else
\* __wait_for_response is entered: timeout_time = time.time() + timeout
Send ==
    /\ wpc = "send"
    /\ IF cur.required_resp_start = NoneVal
       THEN /\ EndHandling
            /\ wpc' = "loop"
       ELSE /\ wcount' = wcount + 1
            /\ att' = 0
            /\ wpc' = "wait"
            /\ UNCHANGED <<cur, trial>>
    /\ UNCHANGED <<serial_list, link_vars, flag_vars, connected, request_queue,
                   response_queue, port_idx, err, raised, pause_loop, caller_vars,
                   cwait>>
    /\ UNCHANGED <<parse_vars, log_vars, other_vars>>

\* WaitTurn as it would be with one attempt more than retry_cnt
WaitTurn_ExtraAttempt(d, line) ==
    LET msg     == read_message(line)
        timeout == att + d > cur.timeout
    IN  IF Matches(msg, cur.required_resp_start, cur.resp_type)
        THEN \* return msg
             /\ PutResponse(msg)
             /\ EndHandling
             /\ wpc' = "loop"
        ELSE IF ~timeout
        THEN /\ att' = att + d
             /\ UNCHANGED <<wpc, cur, trial, wcount, response_queue>>
        ELSE IF cur.req = NoneVal
        THEN \* listen-only: the ResponseTimeout of __wait_for_response itself
             /\ PutResponse(ResponseTimeout(<<>>))
             /\ EndHandling
             /\ wpc' = "loop"
        ELSE IF trial <= cur.retry_cnt
        THEN \* continue: the next attempt
             /\ trial' = trial + 1
             /\ att' = att + d
             /\ wpc' = "send"
             /\ UNCHANGED <<cur, wcount, response_queue>>
        ELSE \* the attempts are exhausted: ResponseTimeout(request=req)
             /\ PutResponse(ResponseTimeout(cur.req))
             /\ EndHandling
             /\ wpc' = "loop"

\* WaitTurn as it would be if a listen-only request were given retry_cnt
\* attempts
WaitTurn_ListenRetries(d, line) ==
    LET msg     == read_message(line)
        timeout == att + d > cur.timeout
    IN  IF Matches(msg, cur.required_resp_start, cur.resp_type)
        THEN \* return msg
             /\ PutResponse(msg)
             /\ EndHandling
             /\ wpc' = "loop"
        ELSE IF ~timeout
        THEN /\ att' = att + d
             /\ UNCHANGED <<wpc, cur, trial, wcount, response_queue>>
        ELSE IF cur.req = NoneVal /\ trial < cur.retry_cnt
        THEN /\ trial' = trial + 1
             /\ att' = 0
             /\ UNCHANGED <<wpc, cur, wcount, response_queue>>
        ELSE IF cur.req = NoneVal
        THEN \* listen-only: the ResponseTimeout of __wait_for_response itself
             /\ PutResponse(ResponseTimeout(<<>>))
             /\ EndHandling
             /\ wpc' = "loop"
        ELSE IF trial < cur.retry_cnt
        THEN \* continue: the next attempt
             /\ trial' = trial + 1
             /\ att' = att + d
             /\ wpc' = "send"
             /\ UNCHANGED <<cur, wcount, response_queue>>
        ELSE \* the attempts are exhausted: ResponseTimeout(request=req)
             /\ PutResponse(ResponseTimeout(cur.req))
             /\ EndHandling
             /\ wpc' = "loop"

\* __wait_for_response: one turn of its loop (read a line within d seconds,
\* test it, test the deadline), and what __handle_serial_request and
\* __process_request_queue do with the result
WaitTurn(d, line) ==
    LET msg     == read_message(line)
        timeout == att + d > cur.timeout
    IN  IF Matches(msg, cur.required_resp_start, cur.resp_type)
        THEN \* return msg
             /\ PutResponse(msg)
             /\ EndHandling
             /\ wpc' = "loop"
        ELSE IF ~timeout
        THEN /\ att' = att + d
             /\ UNCHANGED <<wpc, cur, trial, wcount, response_queue>>
        ELSE IF cur.req = NoneVal
        THEN \* listen-only: the ResponseTimeout of __wait_for_response itself
             /\ PutResponse(ResponseTimeout(<<>>))
             /\ EndHandling
             /\ wpc' = "loop"
        ELSE IF trial < cur.retry_cnt
        THEN \* continue: the next attempt
             /\ trial' = trial + 1
             /\ att' = att + d
             /\ wpc' = "send"
             /\ UNCHANGED <<cur, wcount, response_queue>>
        ELSE \* the attempts are exhausted: ResponseTimeout(request=req)
             /\ PutResponse(ResponseTimeout(cur.req))
             /\ EndHandling
             /\ wpc' = "loop"

Wait ==
    /\ wpc = "wait"
    /\ \E d \in 0..ReadTimeout, line \in LinkLines \cup {<<>>} :
          /\ ~MatchRaises(read_message(line), cur.required_resp_start, cur.resp_type)
          /\ WaitTurn(d, line)
          /\ Elapse(d)
    /\ UNCHANGED <<serial_list, link_vars, flag_vars, connected, request_queue,
                   port_idx, err, raised, pause_loop, caller_vars>>
    /\ UNCHANGED <<parse_vars, log_vars, other_vars>>

\* __wait_for_response: msg.content.startswith raises AttributeError or
\* TypeError, which __main_loop does not catch
WaitRaises ==
    /\ wpc = "wait"
    /\ \E line \in LinkLines :
          MatchRaises(read_message(line), cur.required_resp_start, cur.resp_type)
    /\ raised' = TRUE
    /\ wpc' = "finally"
    /\ EndHandling
    /\ UNCHANGED <<serial_list, link_vars, flag_vars, connected, request_queue,
                   response_queue, port_idx, err, pause_loop, caller_vars, cwait>>
    /\ UNCHANGED <<parse_vars, log_vars, other_vars>>

\* ConnectionLost as it would be if an exception of close() were not caught
ConnectionLost_ClosePropagates ==
    /\ wpc = "finally"
    /\ \E close_raises \in BOOLEAN : close_failed' = close_raises
    /\ is_force_reconnect_requested' = FALSE
    /\ err' = IF is_force_reconnect_requested THEN "Reconnect Forced" ELSE err
    /\ open_links' = open_links \ {serial}
    /\ raised' = FALSE
    /\ IF raised \/ close_failed'
       THEN /\ wpc' = "crashed"
            /\ UNCHANGED <<connected, pause_loop>>
       ELSE /\ connected' = FALSE
            /\ pause_loop' = 1
            /\ wpc' = "sleep"
    /\ UNCHANGED <<serial_list, serial, links_made, is_stopped, request_queue,
                   response_queue, port_idx, handle_vars, caller_vars, cwait>>
    /\ UNCHANGED <<parse_vars, log_vars, other_vars>>

\* ConnectionLost as it would be if the link were not given its close()
ConnectionLost_LeavesOpen ==
    /\ wpc = "finally"
    /\ \E close_raises \in BOOLEAN : close_failed' = close_raises
    /\ is_force_reconnect_requested' = FALSE
    /\ err' = IF is_force_reconnect_requested THEN "Reconnect Forced" ELSE err
    /\ open_links' = open_links
    /\ raised' = FALSE
    /\ IF raised
       THEN /\ wpc' = "crashed"
            /\ UNCHANGED <<connected, pause_loop>>
       ELSE /\ connected' = FALSE
            /\ pause_loop' = 1
            /\ wpc' = "sleep"
    /\ UNCHANGED <<serial_list, serial, links_made, is_stopped, request_queue,
                   response_queue, port_idx, handle_vars, caller_vars, cwait>>
    /\ UNCHANGED <<parse_vars, log_vars, other_vars>>

\* __main_loop: the finally clause and __handle_connection_lost: err, now
\* the reason of the SerialConnectionLost that is logged, is "Reconnect
\* Forced" if the flag is set and str(err) otherwise; close() is called and
\* may raise, which is caught and logged; then run sets connected False and
\* goes to the idle loop, unless an exception is propagating, which ends run
\* and the thread
ConnectionLost ==
    /\ wpc = "finally"
    /\ \E close_raises \in BOOLEAN : close_failed' = close_raises
    /\ is_force_reconnect_requested' = FALSE
    /\ err' = IF is_force_reconnect_requested THEN "Reconnect Forced" ELSE err
    /\ open_links' = open_links \ {serial}
    /\ raised' = FALSE
    /\ IF raised
       THEN /\ wpc' = "crashed"
            /\ UNCHANGED <<connected, pause_loop>>
       ELSE /\ connected' = FALSE
            /\ pause_loop' = 1
            /\ wpc' = "sleep"
    /\ UNCHANGED <<serial_list, serial, links_made, is_stopped, request_queue,
                   response_queue, port_idx, handle_vars, caller_vars, cwait>>
    /\ UNCHANGED <<parse_vars, log_vars, other_vars>>

\* run: while not self.__request_queue.empty(): every queued request is
\* taken off and answered with a SerialNotConnected
RECURSIVE NotConnectedFor(_)
NotConnectedFor(q) ==
    IF q = <<>> THEN <<>>
    ELSE <<[SerialNotConnected EXCEPT !.for = Head(q).id, !.of = Head(q)]>>
         \o NotConnectedFor(Tail(q))

\* IdleTurn as it would be if the drained requests were not answered
IdleTurn_DropsSilently ==
    /\ wpc = "sleep"
    /\ Elapse(SleepSecs)
    /\ err' = "None"
    /\ close_failed' = FALSE
    /\ request_queue' = <<>>
    /\ response_queue' = response_queue
    /\ IF pause_loop < PauseLoops
       THEN /\ pause_loop' = pause_loop + 1
            /\ UNCHANGED wpc
       ELSE /\ pause_loop' = 1
            /\ wpc' = "run"
    /\ UNCHANGED <<serial_list, serial, open_links, links_made, flag_vars, connected,
                   port_idx, handle_vars, raised, caller_vars>>
    /\ UNCHANGED <<parse_vars, log_vars, other_vars>>

\* run: one turn of for loop in range(3): time.sleep(1), then the request
\* queue is drained; after the last turn, back to while is_stopped is False
IdleTurn ==
    /\ wpc = "sleep"
    /\ Elapse(SleepSecs)
    /\ err' = "None"
    /\ close_failed' = FALSE
    /\ request_queue' = <<>>
    /\ response_queue' = response_queue \o NotConnectedFor(request_queue)
    /\ IF pause_loop < PauseLoops
       THEN /\ pause_loop' = pause_loop + 1
            /\ UNCHANGED wpc
       ELSE /\ pause_loop' = 1
            /\ wpc' = "run"
    /\ UNCHANGED <<serial_list, serial, open_links, links_made, flag_vars, connected,
                   port_idx, handle_vars, raised, caller_vars>>
    /\ UNCHANGED <<parse_vars, log_vars, other_vars>>

Worker ==
    \/ Start
    \/ RunCheck
    \/ PortOpens
    \/ PortFails
    \/ SweepFailed
    \/ LoopCheck
    \/ Dequeue
    \/ ProcessIncoming
    \/ LinkFails
    \/ Send
    \/ Wait
    \/ WaitRaises
    \/ ConnectionLost
    \/ IdleTurn

(***************************************************************************)
(* The other threads: stop, force_reconnect, queue_request_wait_response.  *)
(* Each caller makes one call; the callers are numbered in the order of    *)
(* their calls.                                                            *)
(***************************************************************************)
stop ==
    /\ is_stopped' = TRUE
    /\ UNCHANGED <<serial_list, link_vars, is_force_reconnect_requested, connected,
                   request_queue, response_queue, wpc, port_idx, handle_vars, err,
                   raised, pause_loop, caller_vars, cwait>>
    /\ UNCHANGED <<parse_vars, log_vars, other_vars>>

force_reconnect ==
    /\ is_force_reconnect_requested' = TRUE
    /\ UNCHANGED <<serial_list, link_vars, is_stopped, connected,
                   request_queue, response_queue, wpc, port_idx, handle_vars, err,
                   raised, pause_loop, cpc, creq, cres, cwait>>
    /\ UNCHANGED <<parse_vars, log_vars, other_vars>>

\* Call as it would be if a call refused for want of a connection took an
\* event off the response queue
Call_ConsumesWhenDown(c) ==
    /\ cpc[c] = "idle"
    /\ \A b \in Callers : b < c => cpc[b] # "idle"
    /\ IF connected
       THEN /\ cpc' = [cpc EXCEPT ![c] = "put"]
            /\ UNCHANGED cres
       ELSE /\ cpc' = [cpc EXCEPT ![c] = "returned"]
            /\ cres' = [cres EXCEPT ![c] = SerialNotConnected]
    /\ response_queue' = IF connected \/ response_queue = <<>>
                         THEN response_queue ELSE Tail(response_queue)
    /\ UNCHANGED <<serial_list, link_vars, flag_vars, connected, request_queue,
                   wpc, port_idx, handle_vars, err, raised,
                   pause_loop, creq, cwait>>
    /\ UNCHANGED <<parse_vars, log_vars, other_vars>>

\* queue_request_wait_response: if self.__connected ... else
\* SerialNotConnected.  The arguments are first used by Put.
Call(c) ==
    /\ cpc[c] = "idle"
    /\ \A b \in Callers : b < c => cpc[b] # "idle"
    /\ IF connected
       THEN /\ cpc' = [cpc EXCEPT ![c] = "put"]
            /\ UNCHANGED cres
       ELSE /\ cpc' = [cpc EXCEPT ![c] = "returned"]
            /\ cres' = [cres EXCEPT ![c] = SerialNotConnected]
    /\ UNCHANGED <<serial_list, link_vars, flag_vars, connected, request_queue,
                   response_queue, wpc, port_idx, handle_vars, err, raised,
                   pause_loop, creq, cwait>>
    /\ UNCHANGED <<parse_vars, log_vars, other_vars>>

\* Put as it would be if a call without a required response start took an
\* event off the response queue when one is there
Put_ReadsAnyway(c, r) ==
    /\ cpc[c] = "put"
    /\ request_queue' = Append(request_queue,
           [id |-> c, req |-> r.req, required_resp_start |-> r.required_resp_start,
            resp_type |-> r.resp_type, timeout |-> r.timeout,
            retry_cnt |-> r.retry_cnt])
    /\ IF r.required_resp_start # NoneVal
       THEN /\ cpc' = [cpc EXCEPT ![c] = "waiting"]
            /\ cwait' = [cwait EXCEPT ![c] = WaitBound(r)]
            /\ creq' = [creq EXCEPT ![c] = [NoRequest EXCEPT !.id = c, !.req = r.req]]
            /\ UNCHANGED cres
       ELSE /\ cpc' = [cpc EXCEPT ![c] = "returned"]
            /\ cres' = [cres EXCEPT ![c] = CLIResponseMessage(<<>>)]
            /\ UNCHANGED <<creq, cwait>>
    /\ response_queue' = IF r.required_resp_start = NoneVal /\ response_queue # <<>>
                         THEN Tail(response_queue) ELSE response_queue
    /\ UNCHANGED <<serial_list, link_vars, flag_vars, connected, wpc,
                   port_idx, handle_vars, err, raised, pause_loop>>
    /\ UNCHANGED <<parse_vars, log_vars, other_vars>>

\* self.__request_queue.put(...) of the arguments r; without a required
\* response start the call returns CLIResponseMessage(content=""), else it
\* blocks in self.__response_queue.get(block=True, timeout=timeout *
\* retry_cnt + 5.0), keeping of its arguments only req
Put(c, r) ==
    /\ cpc[c] = "put"
    /\ request_queue' = Append(request_queue,
           [id |-> c, req |-> r.req, required_resp_start |-> r.required_resp_start,
            resp_type |-> r.resp_type, timeout |-> r.timeout,
            retry_cnt |-> r.retry_cnt])
    /\ IF r.required_resp_start # NoneVal
       THEN /\ cpc' = [cpc EXCEPT ![c] = "waiting"]
            /\ cwait' = [cwait EXCEPT ![c] = WaitBound(r)]
            /\ creq' = [creq EXCEPT ![c] = [NoRequest EXCEPT !.id = c, !.req = r.req]]
            /\ UNCHANGED cres
       ELSE /\ cpc' = [cpc EXCEPT ![c] = "returned"]
            /\ cres' = [cres EXCEPT ![c] = CLIResponseMessage(<<>>)]
            /\ UNCHANGED <<creq, cwait>>
    /\ UNCHANGED <<serial_list, link_vars, flag_vars, connected, response_queue, wpc,
                   port_idx, handle_vars, err, raised, pause_loop>>
    /\ UNCHANGED <<parse_vars, log_vars, other_vars>>

\* the event as the caller sees it: the code's fields and the request it
\* was produced for
Returned(e) == [e EXCEPT !.of = NoRequest, !.writes = 0, !.attempt = 0]

\* the get returns the head of the response queue
Get(c) ==
    /\ cpc[c] = "waiting"
    /\ response_queue # <<>>
    /\ cres' = [cres EXCEPT ![c] = Returned(Head(response_queue))]
    /\ response_queue' = Tail(response_queue)
    /\ cpc' = [cpc EXCEPT ![c] = "returned"]
    /\ creq' = [creq EXCEPT ![c] = NoRequest]
    /\ cwait' = [cwait EXCEPT ![c] = 0]
    /\ UNCHANGED <<serial_list, link_vars, flag_vars, connected, request_queue, wpc,
                   port_idx, handle_vars, err, raised, pause_loop>>
    /\ UNCHANGED <<parse_vars, log_vars, other_vars>>

\* the get raises Empty: the bound has passed and the queue is empty
GetTimesOut(c) ==
    /\ cpc[c] = "waiting"
    /\ response_queue = <<>>
    /\ cwait[c] = 0
    /\ cres' = [cres EXCEPT ![c] = RequestHandlerTimeout(creq[c].req)]
    /\ cpc' = [cpc EXCEPT ![c] = "returned"]
    /\ creq' = [creq EXCEPT ![c] = NoRequest]
    /\ UNCHANGED <<serial_list, link_vars, flag_vars, connected, request_queue,
                   response_queue, wpc, port_idx, handle_vars, err, raised,
                   pause_loop, cwait>>
    /\ UNCHANGED <<parse_vars, log_vars, other_vars>>

\* the worker thread is not running: a second passes for the blocked callers
Tick ==
    /\ wpc \in {"not_started", "done", "crashed"}
    /\ \E c \in Callers : cpc[c] = "waiting" /\ cwait[c] > 0
    /\ Elapse(1)
    /\ UNCHANGED <<serial_list, link_vars, flag_vars, connected, request_queue,
                   response_queue, wpc, port_idx, handle_vars, err, raised,
                   pause_loop, caller_vars>>
    /\ UNCHANGED <<parse_vars, log_vars, other_vars>>

Next ==
    \/ Worker
    \/ stop
    \/ force_reconnect
    \/ \E c \in Callers : Call(c)
    \/ \E c \in Callers : \E r \in Requests : Put(c, r)
    \/ \E c \in Callers : Get(c)
    \/ \E c \in Callers : GetTimesOut(c)
    \/ Tick

Spec == Init /\ [][Next]_vars

\* The same program with one caller left: the first caller made its call
\* before the thread was started and was answered SerialNotConnected.
InitOne ==
    /\ serial_list \in PortLists
    /\ serial = 0
    /\ open_links = {}
    /\ close_failed = FALSE
    /\ links_made = 0
    /\ is_stopped = FALSE
    /\ is_force_reconnect_requested = FALSE
    /\ connected = FALSE
    /\ request_queue = <<>>
    /\ response_queue = <<>>
    /\ wpc = "not_started"
    /\ port_idx = 1
    /\ cur = NoRequest
    /\ trial = 0
    /\ att = 0
    /\ wcount = 0
    /\ err = "None"
    /\ raised = FALSE
    /\ pause_loop = 1
    /\ cpc = [c \in Callers |-> IF c = 1 THEN "returned" ELSE "idle"]
    /\ creq = [c \in Callers |-> NoRequest]
    /\ cwait = [c \in Callers |-> 0]
    /\ cres = [c \in Callers |-> IF c = 1 THEN SerialNotConnected ELSE NoEvent]
    /\ pin = NoInput
    /\ unsolicited = NoEvent
    /\ other_connected = FALSE
    /\ other_wpc = "not_started"
    /\ other_callers = {}
    /\ other_taken = {}
    /\ pout = NoOutput

\* The threads are scheduled and time advances: the worker thread takes
\* its next step, a caller inside its call takes its next step, and the
\* seconds a blocked caller has left do run out.
SpecFair ==
    /\ InitOne
    /\ [][Next]_vars
    /\ WF_vars(Worker)
    /\ WF_vars(Tick)
    /\ \A c \in Callers :
          WF_vars((\E r \in Requests : Put(c, r)) \/ Get(c) \/ GetTimesOut(c))
    /\ SF_vars(Next /\ cwait' # cwait)


(***************************************************************************)
(* A second SerialInterface in the same process.  __request_queue and      *)
(* __response_queue are attributes of the class, and __init__ assigns      *)
(* neither: the second instance's self.__request_queue and                 *)
(* self.__response_queue are the two Queue objects of the first.  Its      *)
(* other fields are its own.  Its worker is taken a handler at a time: one *)
(* step is a whole __connect, a whole __process_request_queue, or a whole  *)
(* turn of the idle loop.                                                  *)
(***************************************************************************)
worker_frame == <<serial_list, link_vars, flag_vars, connected, wpc, port_idx,
                  handle_vars, err, raised, pause_loop>>

\* Thread.start() and run of the second instance: __connect opens one of
\* its ports or none
other_Connect ==
    /\ other_wpc \in {"not_started", "sleep"}
    /\ \E opened \in BOOLEAN :
          /\ other_connected' = opened
          /\ other_wpc' = IF opened THEN "loop" ELSE "sleep"
    /\ UNCHANGED <<worker_frame, request_queue, response_queue, caller_vars, cwait,
                   other_callers, other_taken>>
    /\ UNCHANGED <<parse_vars, log_vars>>

\* __process_request_queue of the second instance: the head of the request
\* queue is taken and handled on the second instance's port; the event, if
\* the handling ends with one, is put on the response queue
other_Take ==
    /\ other_wpc = "loop"
    /\ request_queue # <<>>
    /\ LET item == Head(request_queue)
       IN  /\ request_queue' = Tail(request_queue)
           /\ other_taken' = other_taken \cup {item.id}
           /\ \/ /\ item.req # NoneVal
                 /\ item.retry_cnt < 1
                 /\ response_queue' = Append(response_queue,
                        [ResponseTimeout(item.req) EXCEPT !.for = item.id, !.of = item])
              \/ /\ item.req = NoneVal \/ item.retry_cnt >= 1
                 /\ item.required_resp_start = NoneVal
                 /\ UNCHANGED response_queue
              \/ /\ item.req = NoneVal \/ item.retry_cnt >= 1
                 /\ item.required_resp_start # NoneVal
                 /\ \/ response_queue' = Append(response_queue,
                          [ResponseTimeout(item.req) EXCEPT !.for = item.id, !.of = item])
                    \/ \E line \in LinkLines :
                          /\ Matches(read_message(line), item.required_resp_start,
                                     item.resp_type)
                          /\ response_queue' = Append(response_queue,
                                 [read_message(line) EXCEPT !.for = item.id, !.of = item])
    /\ UNCHANGED <<worker_frame, caller_vars, cwait, other_connected, other_wpc,
                   other_callers>>
    /\ UNCHANGED <<parse_vars, log_vars>>

\* __main_loop of the second instance is left, for a SerialException or a
\* forced reconnect, and run sets its __connected False
other_Lost ==
    /\ other_wpc = "loop"
    /\ other_connected' = FALSE
    /\ other_wpc' = "sleep"
    /\ UNCHANGED <<worker_frame, request_queue, response_queue, caller_vars, cwait,
                   other_callers, other_taken>>
    /\ UNCHANGED <<parse_vars, log_vars>>

\* the idle loop of the second instance's run: the request queue is drained
\* and every request answered SerialNotConnected
other_Idle ==
    /\ other_wpc = "sleep"
    /\ request_queue # <<>>
    /\ request_queue' = <<>>
    /\ response_queue' = response_queue \o NotConnectedFor(request_queue)
    /\ other_taken' = other_taken \cup {request_queue[i].id : i \in DOMAIN request_queue}
    /\ UNCHANGED <<worker_frame, caller_vars, cwait, other_connected, other_wpc,
                   other_callers>>
    /\ UNCHANGED <<parse_vars, log_vars>>

\* queue_request_wait_response of the second instance: the test is of its
\* own __connected
other_Call(c) ==
    /\ cpc[c] = "idle"
    /\ \A b \in Callers : b < c => cpc[b] # "idle"
    /\ other_callers' = other_callers \cup {c}
    /\ IF other_connected
       THEN /\ cpc' = [cpc EXCEPT ![c] = "put"]
            /\ UNCHANGED cres
       ELSE /\ cpc' = [cpc EXCEPT ![c] = "returned"]
            /\ cres' = [cres EXCEPT ![c] = SerialNotConnected]
    /\ UNCHANGED <<worker_frame, request_queue, response_queue, creq, cwait,
                   other_connected, other_wpc, other_taken>>
    /\ UNCHANGED <<parse_vars, log_vars>>

other_Worker ==
    \/ other_Connect
    \/ other_Take
    \/ other_Lost
    \/ other_Idle

NextTwo ==
    \/ Next
    \/ other_Worker
    \/ \E c \in Callers : other_Call(c)

\* Two instances, the second constructed before the first is started; one
\* caller is left, which calls through the one or the other.
SpecTwo == InitOne /\ [][NextTwo]_vars

(***************************************************************************)
(* The parser and the match test on their own: parse_message and the test  *)
(* of __wait_for_response applied once to a line and a request's match     *)
(* arguments; the interface is not started.                                *)
(***************************************************************************)
\* BEL, LF, CR, space, "K", "O"
ParseBytes == {7, 9, LF, CR, 32, 75, 79}

ParseLines == UNION {[1..n -> ParseBytes] : n \in 0..MaxLineLen}

\* what parse_message is given: a byte sequence or None
ParseInputs == ParseLines \cup {NoneVal}

\* "OK", "K", ["OK", "K"], [], None
ParsePrefixes == {OK, <<75>>, ListOf(<<OK, <<75>>>>), ListOf(<<>>), NoneVal}

ParseTypes == {"CLIResponseMessage", "InvalidMessage", "EmptyMessage", "Event"}

InitParse ==
    /\ serial_list = <<>>
    /\ serial = 0
    /\ open_links = {}
    /\ close_failed = FALSE
    /\ links_made = 0
    /\ is_stopped = FALSE
    /\ is_force_reconnect_requested = FALSE
    /\ connected = FALSE
    /\ request_queue = <<>>
    /\ response_queue = <<>>
    /\ wpc = "not_started"
    /\ port_idx = 1
    /\ cur = NoRequest
    /\ trial = 0
    /\ att = 0
    /\ wcount = 0
    /\ err = "None"
    /\ raised = FALSE
    /\ pause_loop = 1
    /\ cpc = [c \in Callers |-> "idle"]
    /\ creq = [c \in Callers |-> NoRequest]
    /\ cwait = [c \in Callers |-> 0]
    /\ cres = [c \in Callers |-> NoEvent]
    /\ pin \in [line : ParseInputs, required_resp_start : ParsePrefixes,
                 resp_type : ParseTypes]
    /\ unsolicited = NoEvent
    /\ other_connected = FALSE
    /\ other_wpc = "not_started"
    /\ other_callers = {}
    /\ other_taken = {}
    /\ pout = NoOutput

\* SerialInterface.parse_message(line) and SerialRequest.parse_message(line);
\* msg = __read_message() for the line and the test
\* of __wait_for_response on it: it returns msg, goes on to the deadline
\* test, or raises
Parse ==
    /\ pin # NoInput
    /\ ~pout.done
    /\ LET msg == read_message(pin.line)
       IN  pout' = [done    |-> TRUE,
                    parsed  |-> parse_message(pin.line),
                    request_parsed |-> SerialRequest_parse_message(pin.line),
                    msg     |-> msg,
                    outcome |-> IF MatchRaises(msg, pin.required_resp_start, pin.resp_type)
                                THEN "raises"
                                ELSE IF Matches(msg, pin.required_resp_start, pin.resp_type)
                                THEN "resolves"
                                ELSE "ignored"]
    /\ UNCHANGED <<serial_list, link_vars, flag_vars, connected, request_queue,
                   response_queue, wpc, port_idx, handle_vars, err, raised, pause_loop,
                   caller_vars, cwait, pin, unsolicited, other_vars>>

SpecParse == InitParse /\ [][Parse]_vars

(***************************************************************************)
(* Properties.                                                             *)
(***************************************************************************)
\* the caller's request is in the request queue
Queued(c) == \E i \in 1..Len(request_queue) : request_queue[i].id = c

\* the events on the response queue
Published == {response_queue[i] : i \in 1..Len(response_queue)}

\* the caller's blocking Queue.get returns in this step
GetReturns(c) == cpc[c] = "waiting" /\ cpc'[c] = "returned" /\ response_queue # <<>>

\* C1: when several callers are blocked in queue_request_wait_response at
\* the same time, the event a caller's Queue.get returns is the event the
\* worker produced for that caller's own request, never the event
\* produced for another caller's request.
C1_NoCrossDelivery ==
    [][\A c \in Callers :
          (GetReturns(c) /\ \E b \in Callers \ {c} : cpc[b] = "waiting")
              => cres'[c].for = c]_vars

\* C2: a call made while connected is False returns SerialNotConnected in
\* that very step and leaves the request queue and the response queue as
\* they were.
C2_NotConnectedReturnsAtOnce ==
    [][\A c \in Callers :
          (cpc[c] = "idle" /\ cpc'[c] # "idle" /\ ~connected)
              => /\ cpc'[c] = "returned"
                 /\ cres'[c] = SerialNotConnected
                 /\ request_queue' = request_queue
                 /\ response_queue' = response_queue]_vars

\* a caller was refused with SerialNotConnected although an event was
\* waiting on the response queue, and the event is still there
C2_Witness ==
    \E c \in Callers :
       /\ cpc[c] = "returned"
       /\ cres[c] = SerialNotConnected
       /\ ~connected
       /\ response_queue # <<>>

\* C3: when the handling of a response-expecting request the worker took
\* off the request queue ends, exactly one event for that request has been
\* put on the response queue, also when the handling ends because the link
\* raised SerialException.
C3_OneTerminalEvent ==
    [][(cur # NoRequest /\ cur' = NoRequest /\ cur.required_resp_start # NoneVal)
          => /\ Len(response_queue') = Len(response_queue) + 1
             /\ Last(response_queue').for = cur.id]_vars

C5_ForcedNotLeftWithoutEvent ==
    \A c \in Callers :
       (is_force_reconnect_requested /\ cpc[c] = "waiting" /\ Queued(c))
           ~> (cpc[c] = "returned" /\ cres[c].type # "RequestHandlerTimeout")

\* C6: the worker thread has ended only if stop() was called.
C6_EndsOnlyAfterStop ==
    wpc \in {"done", "crashed"} => is_stopped

C8_WritesRetryCntThenTimeout ==
    /\ cur # NoRequest =>
          /\ wcount <= cur.retry_cnt
          /\ wcount \in {trial - 1, trial}
    /\ \A e \in Published :
          (/\ e.type = "ResponseTimeout"
           /\ e.of.req # NoneVal
           /\ e.of.required_resp_start # NoneVal)
              => /\ e.writes = e.of.retry_cnt
                 /\ e.request = e.of.req
                 /\ cur.id # e.for
                 /\ ~Queued(e.for)
                 /\ Cardinality({i \in 1..Len(response_queue) :
                                    response_queue[i].for = e.for}) = 1

\* a request was written more than once and then timed out
C8_Witness ==
    \E e \in Published :
       /\ e.type = "ResponseTimeout"
       /\ e.of.required_resp_start # NoneVal
       /\ e.of.retry_cnt > 1
       /\ e.writes = e.of.retry_cnt
       /\ e.request = e.of.req

\* C9: a caller that made its call with a payload, timeout T and
\* retry_cnt N and is returned a ResponseTimeout has waited T*N seconds or
\* more: of the T*N + 5 seconds of its Queue.get no more than the 5 are
\* left.
C9_NotBeforeAllDeadlines ==
    [][\A c \in Callers :
          (GetReturns(c) /\ creq[c].req # NoneVal
                         /\ cres'[c].type = "ResponseTimeout")
              => cwait[c] <= CallerSlack]_vars

\* C10: an event published for a request with a payload that is neither a
\* ResponseTimeout nor a SerialNotConnected is a message of the expected
\* type whose content starts with the required response start; it was
\* read in an attempt k <= retry_cnt after exactly k writes, and the
\* handling of the request is over: no further attempt is made.
C10_MatchResolvesAtOnce ==
    \A e \in Published :
       (e.type \notin {"ResponseTimeout", "SerialNotConnected"} /\ e.of.req # NoneVal)
          => /\ e.type = "CLIResponseMessage"
             /\ e.of.resp_type \in {"CLIResponseMessage", "Event"}
             /\ e.of.required_resp_start # NoneVal
             /\ Len(e.of.required_resp_start) <= Len(e.content)
             /\ SubSeq(e.content, 1, Len(e.of.required_resp_start))
                   = e.of.required_resp_start
             /\ e.attempt \in 1..e.of.retry_cnt
             /\ e.writes = e.attempt
             /\ cur.id # e.for
             /\ ~Queued(e.for)

\* a request was answered by a matching line read in its second attempt
C10_Witness ==
    \E e \in Published :
       /\ e.type = "CLIResponseMessage"
       /\ e.attempt = 2
       /\ e.writes = 2
       /\ e.of.retry_cnt >= 2


\* the printable bytes a line begins with, and what follows them
TextOf(line) ==
    LET ok == {m \in 0..Len(line) :
                 \A i \in 1..m : line[i] >= PrintableLo /\ line[i] <= PrintableHi}
        m  == CHOOSE x \in ok : \A y \in ok : y <= x
    IN  SubSeq(line, 1, m)

DelimiterOf(line) == SubSeq(line, Len(TextOf(line)) + 1, Len(line))

\* text without the spaces before its first and after its last other character
Trimmed(text) ==
    LET at == {i \in 1..Len(text) : text[i] # 32}
    IN  IF at = {} THEN <<>>
        ELSE SubSeq(text, CHOOSE i \in at : \A j \in at : i <= j,
                          CHOOSE i \in at : \A j \in at : j <= i)

\* text without the spaces after its last other character
RightTrimmed(text) ==
    LET at == {i \in 1..Len(text) : text[i] # 32}
    IN  IF at = {} THEN <<>>
        ELSE SubSeq(text, 1, CHOOSE i \in at : \A j \in at : j <= i)

\* printable text that is not blank, followed by one delimiter
WellFormed(line) ==
    /\ DelimiterOf(line) \in {<<CR, LF>>, <<CR>>, <<LF>>}
    /\ Trimmed(TextOf(line)) # <<>>

\* C11 as stated: the content of the CLIResponseMessage of a well-formed
\* line is the text of the line without the delimiter and the surrounding
\* whitespace, character for character.
C11_ContentIntact ==
    (pout.done /\ WellFormed(pin.line))
        => pout.parsed = CLIResponseMessage(Trimmed(TextOf(pin.line)))

\* C11 amended: the content is the text of the line without the delimiter
\* and the surrounding whitespace, character for character, when the text
\* without its trailing whitespace is longer than one character; when it is
\* one character, the content is empty.
C11_ContentIntactIfLonger ==
    (pout.done /\ WellFormed(pin.line))
        => pout.parsed =
              CLIResponseMessage(IF Len(RightTrimmed(TextOf(pin.line))) > 1
                                 THEN Trimmed(TextOf(pin.line))
                                 ELSE <<>>)

\* " OK" and a carriage return were parsed to the content "OK"
C11_Witness ==
    /\ pout.done
    /\ pin.line = <<32, 79, 75, CR>>
    /\ pout.parsed.type = "CLIResponseMessage"
    /\ pout.parsed.content = <<79, 75>>

\* the strings a required response start accepts
Accepted(p) ==
    IF p = NoneVal THEN {}
    ELSE IF Len(p) > 0 /\ p[1] = -2 THEN {p[i] : i \in 2..Len(p)}
    ELSE {p}

\* C12: the message read resolves the request exactly if it is an
\* instance of the expected type and its content is text that starts with
\* the required response start, or with one of them when a list is given;
\* a content that holds the prefix elsewhere does not resolve.
C12_ResolvesIffTypeAndPrefix ==
    pout.done =>
       (pout.outcome = "resolves"
          <=> /\ pout.msg.type = "CLIResponseMessage"
              /\ pin.resp_type \in {"CLIResponseMessage", "Event"}
              /\ \E q \in Accepted(pin.required_resp_start) :
                    /\ Len(q) <= Len(pout.msg.content)
                    /\ SubSeq(pout.msg.content, 1, Len(q)) = q)

\* "KO" resolved a request by the second string of its list ["OK", "K"]
C12_Witness ==
    /\ pout.done
    /\ pout.outcome = "resolves"
    /\ pout.msg.content = <<75, 79>>
    /\ pin.required_resp_start = ListOf(<<OK, <<75>>>>)


\* fire-and-forget: a payload and no required response start
FireAndForget(r) == r.req # NoneVal /\ r.required_resp_start = NoneVal

\* C13: a fire-and-forget request in the worker's hands is at its one
\* write, in its first attempt, never in __wait_for_response; its handling
\* ends without a put on the response queue; and no event on the response
\* queue other than the SerialNotConnected of the idle loop is for a
\* fire-and-forget request.
C13_FireAndForgetSilent ==
    /\ [](FireAndForget(cur) => (wpc = "send" /\ trial = 1 /\ wcount = 0))
    /\ [][(FireAndForget(cur) /\ cur' # cur)
             => (cur' = NoRequest /\ response_queue' = response_queue)]_vars
    /\ [](\A e \in Published : FireAndForget(e.of) => e.type = "SerialNotConnected")

\* C14: a caller that found the interface connected and passes no required
\* response start appends its request and returns CLIResponseMessage("")
\* in the same step, the response queue untouched; it never blocks.
C14_AckWithoutBlocking ==
    [][\A c \in Callers :
          (cpc[c] = "put" /\ cpc'[c] # "put"
             /\ Len(request_queue') = Len(request_queue) + 1
             /\ Last(request_queue').required_resp_start = NoneVal)
              => /\ cpc'[c] = "returned"
                 /\ cres'[c] = CLIResponseMessage(<<>>)
                 /\ Last(request_queue').id = c
                 /\ Front(request_queue') = request_queue
                 /\ response_queue' = response_queue]_vars

\* a caller got its acknowledgment while an event lay on the response
\* queue, and its request is queued
C14_Witness ==
    \E c \in Callers :
       /\ cpc[c] = "returned"
       /\ cres[c] = CLIResponseMessage(<<>>)
       /\ Queued(c)
       /\ response_queue # <<>>

\* C15: a sweep begins at the first port; it moves to the next port only
\* when the port it is at failed to open, one port at a time; a link is
\* opened only in a sweep, at a port of the list, and ends the sweep: the
\* ports behind it are not tried.
C15_PortsInOrder ==
    [][/\ (wpc # "sweep" /\ wpc' = "sweep") => port_idx' = 1
       /\ (wpc = "sweep" /\ wpc' = "sweep" /\ port_idx' # port_idx)
             => /\ port_idx \in 1..Len(serial_list)
                /\ port_idx' = port_idx + 1
                /\ links_made' = links_made
       /\ links_made' # links_made
             => /\ wpc = "sweep"
                /\ port_idx \in 1..Len(serial_list)
                /\ wpc' = "loop"
                /\ serial' = links_made'
                /\ connected']_vars

\* the first port failed to open and the sweep is at the second, which opens
C15_Witness ==
    /\ wpc = "sweep"
    /\ port_idx = 2
    /\ ENABLED PortOpens

\* C16: during a sweep, and after a sweep in which no port opened until a
\* port opens, connected is False and serial is None; with an empty port
\* list that is so in every state, and a call is never blocked: it is not
\* begun or has returned SerialNotConnected.
C16_StaysDisconnected ==
    /\ [](wpc = "sweep" => (~connected /\ serial = 0))
    /\ [][(wpc \in {"sweep", "sleep", "run"} /\ ~connected /\ serial = 0)
             => \/ (~connected' /\ serial' = 0)
                \/ (wpc = "sweep" /\ wpc' = "loop" /\ links_made' = links_made + 1)]_vars
    /\ [](serial_list = <<>>
             => /\ ~connected
                /\ serial = 0
                /\ \A c \in Callers :
                      \/ cpc[c] = "idle"
                      \/ (cpc[c] = "returned" /\ cres[c] = SerialNotConnected))

\* no port of a non-empty list opened, the worker is in its idle loop, and
\* a caller was refused
C16_Witness ==
    /\ serial_list # <<>>
    /\ wpc = "sleep"
    /\ links_made = 0
    /\ ~connected
    /\ serial = 0
    /\ \E c \in Callers : cpc[c] = "returned" /\ cres[c] = SerialNotConnected


\* the worker is in __main_loop: the interface is in its Connected state
ConnectedPcs == {"loop", "body", "send", "wait"}

\* __main_loop is left and the SerialConnectionLost is logged in this step
LostStep == wpc = "finally" /\ wpc' # "finally"

but_force == <<serial_list, link_vars, is_stopped, connected, request_queue,
               response_queue, wpc, port_idx, handle_vars, err, raised, pause_loop,
               caller_vars, cwait, parse_vars, other_vars>>

\* C18: force_reconnect changes nothing but the flag, and nothing at all
\* when the flag is set already; with the flag set the worker leaves
\* __main_loop from within an iteration only by an exception, as without
\* it; at the loop test it leaves for the finally clause, which clears the
\* flag; and from there the link is closed and, unless stop was called, a
\* new sweep begins.
C18_ForceIsAFlag ==
    /\ [](~ENABLED (force_reconnect /\ but_force' # but_force))
    /\ [](is_force_reconnect_requested => ~ENABLED (force_reconnect /\ vars' # vars))
    /\ [][(wpc \in {"body", "send", "wait"} /\ wpc' \notin ConnectedPcs)
             => (wpc' = "finally" /\ (err' = "SerialException" \/ raised'))]_vars
    /\ [][(wpc = "loop" /\ is_force_reconnect_requested /\ wpc' # wpc)
             => wpc' = "finally"]_vars
    /\ [][LostStep => ~is_force_reconnect_requested']_vars
    /\ (wpc = "loop" /\ is_force_reconnect_requested)
          ~> (open_links = {} /\ (wpc = "sweep" \/ is_stopped))

\* force_reconnect was called while a request was in the worker's hands; the
\* worker went on with it, met the flag at the loop test and has closed the
\* link: it is in its idle loop for the reason "Reconnect Forced", the event
\* of that request published
C18_Witness ==
    /\ wpc = "sleep"
    /\ err = "Reconnect Forced"
    /\ ~is_force_reconnect_requested
    /\ open_links = {}
    /\ \E e \in Published : e.type \in {"CLIResponseMessage", "ResponseTimeout"}


\* C19: the request queue changes only by a put at its tail, by the worker
\* taking its head, with no other request in its hands, to handle it or to
\* time it out at once, or by the idle loop answering all of it in order;
\* the worker takes no request up before the one in its hands is done with;
\* and the end of a request's handling, a timeout included, leaves the
\* request queue as it is.
C19_ServedInQueueOrder ==
    [][/\ request_queue' # request_queue
            => \/ /\ request_queue' # <<>>
                  /\ Front(request_queue') = request_queue
               \/ /\ wpc = "body"
                  /\ cur = NoRequest
                  /\ request_queue # <<>>
                  /\ request_queue' = Tail(request_queue)
                  /\ \/ cur' = Head(request_queue)
                     \/ /\ cur' = NoRequest
                        /\ Len(response_queue') = Len(response_queue) + 1
                        /\ Last(response_queue').type = "ResponseTimeout"
                        /\ Last(response_queue').of = Head(request_queue)
               \/ /\ wpc = "sleep"
                  /\ request_queue' = <<>>
                  /\ Len(response_queue') = Len(response_queue) + Len(request_queue)
                  /\ \A i \in 1..Len(request_queue) :
                        response_queue'[Len(response_queue) + i].of = request_queue[i]
       /\ (cur # NoRequest /\ cur' # cur)
            => (cur' = NoRequest /\ request_queue' = request_queue)]_vars

\* the request of one caller has timed out, its ResponseTimeout is on the
\* response queue, and the worker has the request of the other caller, which
\* was queued behind it, in its hands
C19_Witness ==
    /\ cur # NoRequest
    /\ \E e \in Published :
          /\ e.type = "ResponseTimeout"
          /\ e.for # cur.id
          /\ e.writes >= 1

\* C20: no caller has returned RequestHandlerTimeout for a request that
\* the worker has taken off the request queue in __main_loop and answered
\* with the event of its handling.
C20_NoTimeoutForAnswered ==
    \A c \in Callers :
       (cpc[c] = "returned" /\ cres[c].type = "RequestHandlerTimeout")
          => ~\E e \in Published :
                 e.for = c /\ e.type \in {"CLIResponseMessage", "ResponseTimeout"}


\* the delimiter runs the stripping rule removes: one line feed or none,
\* before it up to two carriage returns
DelimiterRuns == {<<>>, <<LF>>, <<CR>>, <<CR, CR>>, <<CR, LF>>, <<CR, CR, LF>>}

\* the bytes of a line before its longest trailing delimiter run
BodyOf(line) ==
    LET at == {k \in 0..Len(line) : SubSeq(line, k + 1, Len(line)) \in DelimiterRuns}
    IN  SubSeq(line, 1, CHOOSE k \in at : \A j \in at : k <= j)

\* every byte is in [0x20, 0x7E]
Printable(bytes) ==
    \A i \in 1..Len(bytes) : bytes[i] >= PrintableLo /\ bytes[i] <= PrintableHi

\* spaces only
Blank(bytes) == \A i \in 1..Len(bytes) : bytes[i] = 32

\* a byte sequence, not None
IsBytes(line) == line # NoneVal

\* C21: the event is an EmptyMessage exactly when the input is None, has
\* no byte, or has a body of spaces only before its delimiters, and the
\* error is then "Empty line"; the content of a CLIResponseMessage does not
\* end in whitespace: for a body that begins with another character and
\* is, without its trailing spaces, longer than one character, the content
\* is the body without its trailing spaces.
C21_EmptyExactlyWhenBlank ==
    pout.done =>
       LET line  == pin.line
           blank == \/ ~IsBytes(line)
                    \/ line = <<>>
                    \/ (BodyOf(line) # <<>> /\ Blank(BodyOf(line)))
       IN  /\ pout.parsed.type = "EmptyMessage" <=> blank
           /\ blank => pout.parsed = EmptyMessage("Empty line")
           /\ pout.parsed.type = "CLIResponseMessage"
                 => (pout.parsed.content = <<>> \/ Last(pout.parsed.content) # 32)
           /\ (IsBytes(line) /\ Printable(BodyOf(line))
                  /\ Len(RightTrimmed(BodyOf(line))) > 1 /\ Head(BodyOf(line)) # 32)
                 => pout.parsed = CLIResponseMessage(RightTrimmed(BodyOf(line)))

\* b" \r\n" was parsed to EmptyMessage("Empty line")
C21_Witness ==
    /\ pout.done
    /\ pin.line = <<32, CR, LF>>
    /\ pout.parsed.type = "EmptyMessage"
    /\ pout.parsed.error = "Empty line"

\* C22: a line that is a delimiter run is an InvalidMessage: b"\n" gives
\* "Msg only 0x0a" with content b"\n", any other run "Msg only 0x0d" with
\* content b"\r"; no other input gives these errors.
C22_DelimiterOnlyNamed ==
    pout.done =>
       /\ (IsBytes(pin.line) /\ pin.line \in DelimiterRuns \ {<<>>})
             => pout.parsed = IF pin.line = <<LF>>
                              THEN InvalidMessage(<<LF>>, "Msg only 0x0a")
                              ELSE InvalidMessage(<<CR>>, "Msg only 0x0d")
       /\ pout.parsed.error \in {"Msg only 0x0a", "Msg only 0x0d"}
             => pin.line \in DelimiterRuns \ {<<>>}

\* b"\r\n" was parsed to InvalidMessage(b"\r", "Msg only 0x0d")
C22_Witness ==
    /\ pout.done
    /\ pin.line = <<CR, LF>>
    /\ pout.parsed.type = "InvalidMessage"
    /\ pout.parsed.error = "Msg only 0x0d"
    /\ pout.parsed.content = <<CR>>

\* C23: a line that is not of delimiter bytes only and has a byte outside
\* [0x20, 0x7E] before its trailing delimiter run is an InvalidMessage with
\* the error "Illegal character(s)".
C23_IllegalByteRejected ==
    (/\ pout.done
     /\ IsBytes(pin.line)
     /\ \E i \in 1..Len(pin.line) : pin.line[i] \notin {CR, LF}
     /\ ~Printable(BodyOf(pin.line)))
        => /\ pout.parsed.type = "InvalidMessage"
           /\ pout.parsed.error = "Illegal character(s)"

\* b"OK\t\r" was rejected for its tab
C23_Witness ==
    /\ pout.done
    /\ pin.line = <<79, 75, 9, CR>>
    /\ pout.parsed.type = "InvalidMessage"
    /\ pout.parsed.error = "Illegal character(s)"

\* C24 as stated: the InvalidMessage of an illegal character has the line
\* as it was given, delimiters included, as its content.
C24_RejectedWithRawLine ==
    (pout.done /\ pout.parsed.error = "Illegal character(s)")
        => pout.parsed.content = pin.line

\* C24 amended: the InvalidMessage of an illegal character has the line
\* without its trailing delimiter run as its content.
C24_RejectedWithCutLine ==
    (pout.done /\ pout.parsed.error = "Illegal character(s)")
        => pout.parsed.content = BodyOf(pin.line)

\* b"\x07K\r\n" was rejected with the content b"\x07K"
C24_Witness ==
    /\ pout.done
    /\ pin.line = <<7, 75, CR, LF>>
    /\ pout.parsed.error = "Illegal character(s)"
    /\ pout.parsed.content = <<7, 75>>

\* C25: for a line that ends in a line feed or a carriage return, the
\* content of a CLIResponseMessage is printable, so without delimiters; and
\* what is parsed is the line before its delimiter run: a printable body
\* that is not blank gives a CLIResponseMessage, of the trimmed body or,
\* when the body without trailing spaces is one character, of nothing.
C25_DelimitersNeverContent ==
    (/\ pout.done
     /\ IsBytes(pin.line)
     /\ pin.line # <<>>
     /\ Last(pin.line) \in {LF, CR})
        => /\ pout.parsed.type = "CLIResponseMessage" => Printable(pout.parsed.content)
           /\ (Printable(BodyOf(pin.line)) /\ ~Blank(BodyOf(pin.line)))
                 => pout.parsed =
                       CLIResponseMessage(IF Len(RightTrimmed(BodyOf(pin.line))) > 1
                                          THEN Trimmed(BodyOf(pin.line))
                                          ELSE <<>>)

\* b"KO\r\r" was parsed to the content "KO", both carriage returns cut
C25_Witness ==
    /\ pout.done
    /\ pin.line = <<75, 79, CR, CR>>
    /\ pout.parsed = CLIResponseMessage(<<75, 79>>)

\* the text parse_message tests the length of: the printable body without
\* its trailing spaces
StrippedText(line) == RightTrimmed(BodyOf(line))

\* a line with a printable body that is not blank
ValidLine(line) ==
    /\ IsBytes(line)
    /\ Printable(BodyOf(line))
    /\ StrippedText(line) # <<>>

\* C26 as stated: the content of a valid line is empty for a text of one
\* character, and for a longer text the text without its first character.
C26_FirstCharacterRemoved ==
    (pout.done /\ ValidLine(pin.line))
        => /\ pout.parsed.type = "CLIResponseMessage"
           /\ pout.parsed.content =
                 IF Len(StrippedText(pin.line)) <= 1
                 THEN <<>>
                 ELSE Tail(StrippedText(pin.line))

\* C26 amended: the content of a valid line is empty for a text of one
\* character, and for a longer text the text without its leading
\* whitespace: every character from the first that is no space on.
C26_LeadingWhitespaceRemoved ==
    (pout.done /\ ValidLine(pin.line))
        => /\ pout.parsed.type = "CLIResponseMessage"
           /\ pout.parsed.content =
                 IF Len(StrippedText(pin.line)) <= 1
                 THEN <<>>
                 ELSE LET text == StrippedText(pin.line)
                          k    == CHOOSE i \in 1..Len(text) :
                                     text[i] # 32 /\ \A j \in 1..(i - 1) : text[j] = 32
                      IN  SubSeq(text, k, Len(text))

\* b"  K\r" was parsed to the content "K": two characters removed
C26_Witness ==
    /\ pout.done
    /\ pin.line = <<32, 32, 75, CR>>
    /\ pout.parsed = CLIResponseMessage(<<75>>)

C27_OneLinkFreshEach ==
    /\ [](Cardinality(open_links) <= 1 /\ (open_links # {} => open_links = {serial}))
    /\ [][links_made' # links_made
             => /\ open_links = {}
                /\ serial' \notin 1..links_made
                /\ links_made' = links_made + 1
                /\ open_links' = {serial'}]_vars

\* the interface has connected a second time: the first Serial object was
\* given its close(), the second is open
C27_Witness ==
    /\ links_made = 2
    /\ serial = 2
    /\ open_links = {2}
    /\ connected

\* a request without a payload
ListenOnly(r) == r # NoRequest /\ r.req = NoneVal

\* C29: a listen-only request in the worker's hands is in
\* __wait_for_response, in its first attempt, with nothing written, for no
\* longer than its timeout and one read; its handling ends, if not by an
\* exception, with one event: a message of the expected type that starts
\* with the required response start, or a ResponseTimeout, put when the
\* timeout has run out by the end of the read.
C29_ListenOnlyOneAttempt ==
    /\ [](ListenOnly(cur)
             => (wpc = "wait" /\ trial = 1 /\ wcount = 0 /\ att <= cur.timeout))
    /\ [][(ListenOnly(cur) /\ cur' # cur)
             => \/ wpc' = "finally"
                \/ /\ cur' = NoRequest
                   /\ wpc' = "loop"
                   /\ Front(response_queue') = response_queue
                   /\ LET e == Last(response_queue')
                      IN  /\ e.of = cur
                          /\ e.writes = 0
                          /\ \/ /\ e.type = "ResponseTimeout"
                                /\ att + ReadTimeout > cur.timeout
                             \/ /\ e.type = "CLIResponseMessage"
                                /\ cur.resp_type \in {"CLIResponseMessage", "Event"}
                                /\ \E q \in Accepted(cur.required_resp_start) :
                                      /\ Len(q) <= Len(e.content)
                                      /\ SubSeq(e.content, 1, Len(q)) = q]_vars

\* a listen-only request with retry_cnt 2 has timed out after its one
\* attempt, nothing written
C29_Witness ==
    \E e \in Published :
       /\ e.type = "ResponseTimeout"
       /\ ListenOnly(e.of)
       /\ e.of.retry_cnt > 1
       /\ e.attempt = 1
       /\ e.writes = 0


C31_ParsersAgree ==
    pout.done =>
       /\ pout.request_parsed.type = pout.parsed.type
       /\ pout.request_parsed.error = pout.parsed.error
       /\ pout.request_parsed.content = pout.parsed.content

\* both parsers were given b"\t \r\r" and rejected it with the content
\* b"\t "
C31_Witness ==
    /\ pout.done
    /\ pin.line = <<9, 32, CR, CR>>
    /\ pout.request_parsed = InvalidMessage(<<9, 32>>, "Illegal character(s)")
    /\ pout.parsed = pout.request_parsed


\* the callers blocked in Queue.get
Blocked == {c \in Callers : cpc[c] = "waiting"}

\* C32: the response queue holds no more events than there are callers
\* blocked in queue_request_wait_response.
C32_NoEventWithoutWaiter == Len(response_queue) <= Cardinality(Blocked)

\* C33: when the worker thread has ended, connected is False; connected is
\* True only from a successful connect to the end of __main_loop; and
\* connected True has serial not None.
C33_EndedIsDisconnected ==
    /\ wpc \in {"done", "crashed"} => ~connected
    /\ connected => wpc \in ConnectedPcs \cup {"finally"}
    /\ connected => serial # 0


\* C34: a forced reconnect tears down at most one link. The flag is raised
\* by force_reconnect alone; the step that ends __main_loop leaves it down,
\* and names the forced reconnect as its reason only if it found it up; a
\* sweep begins only from the top of run and begins with the flag down, so
\* that a call made in the idle loop is forgotten; and a link is left at the
\* loop test only with the flag up or after stop.
C34_OneLinkPerForce ==
    /\ [][(~is_force_reconnect_requested /\ is_force_reconnect_requested')
             => but_force' = but_force]_vars
    /\ [][LostStep
             => /\ ~is_force_reconnect_requested'
                /\ err' = "Reconnect Forced" => is_force_reconnect_requested]_vars
    /\ [][(wpc # "sweep" /\ wpc' = "sweep")
             => (wpc = "run" /\ ~is_force_reconnect_requested')]_vars
    /\ [][(wpc = "loop" /\ wpc' = "finally")
             => (is_force_reconnect_requested \/ is_stopped)]_vars

\* a link was made and lost, and force_reconnect was called in the idle loop
\* that followed: the worker is at the top of run, not stopped, about to
\* begin the next sweep
C34_Witness ==
    /\ wpc = "run"
    /\ ~is_stopped
    /\ is_force_reconnect_requested
    /\ links_made = 1
    /\ open_links = {}
    /\ ~connected


\* the worker of the first instance takes requests off the request queue in
\* this step
TakesRequests ==
    /\ Len(request_queue') < Len(request_queue)
    /\ other_taken' = other_taken

\* C35: two instances are isolated. The second instance's worker takes only
\* requests put through the second instance and the first instance's
\* worker only requests put through the first; and a caller's get returns
\* an event of the worker of the instance it called through.
C35_InstancesIsolated ==
    /\ [](other_taken \subseteq other_callers)
    /\ [][TakesRequests
             => \A i \in DOMAIN request_queue :
                   request_queue[i].id \in other_callers
                      => \E j \in DOMAIN request_queue' :
                            request_queue'[j] = request_queue[i]]_vars
    /\ [][\A c \in Callers :
             GetReturns(c)
                => ((Head(response_queue).for \in other_taken)
                       <=> (c \in other_callers))]_vars

====
